---- MODULE Spec2Model ----
(***************************************************************************)
(* Model of the auction contract in src/src/lib.rs.                        *)
(*                                                                         *)
(* The contract state (AuctionContractState) is one aggregate that every   *)
(* invocation receives and returns.  An invocation that panics commits     *)
(* nothing.  An action that emits a transfer with a callback puts the      *)
(* callback in flight; the host delivers it later, in any order, with a    *)
(* success or failure verdict.                                             *)
(***************************************************************************)
EXTENDS Integers, Sequences, FiniteSets, Bags, TLC

VARIABLES
    \* AuctionContractState (lib.rs 49-61)
    contract_owner, start_time_millis, end_time_millis, token_amount_for_sale,
    highest_bidder, reserve_price, min_increment, claim_map, status,
    \* host: clock, callbacks in flight, arithmetic of the build
    now, pending_start, pending_bids, overflow_checks,
    \* bid invocations so far
    bids_made,
    \* observation of the last invocation: what it was, whether it returned,
    \* the event groups it returned
    last, events,
    \* accounts of the confirmed bid pulls: the sum of their amounts, and the
    \* change they made to the ledger's total of tokens_for_bidding
    confirmed_sum, credited_sum,
    \* how far the committed invocations so far follow ScenarioTrace
    \* (Off once they depart from it)
    scenario_step,
    \* the values status has taken, in order
    status_trace,
    \* the bidding tokens claim has requested to pay out, in total
    claimed_sum,
    \* start has emitted its transfer request at least once
    start_requested

state == <<contract_owner, start_time_millis, end_time_millis, token_amount_for_sale,
           highest_bidder, reserve_price, min_increment, claim_map, status>>
vars == <<contract_owner, start_time_millis, end_time_millis, token_amount_for_sale,
          highest_bidder, reserve_price, min_increment, claim_map, status,
          now, pending_start, pending_bids, overflow_checks, bids_made,
          last, events, confirmed_sum, credited_sum, scenario_step, status_trace,
          claimed_sum, start_requested>>

---------------------------------------------------------------------------
\* Bounds of the model.

\* u128 is modelled with U128Bits bits.
U128Bits == 11
\* start invocations that emit a transfer request
MaxStarts == 2
\* bid invocations
MaxBids == 2
\* hours the clock advances after construction
MaxHours == 1

U128Max == 2^U128Bits - 1
U128Mod == 2^U128Bits

---------------------------------------------------------------------------
\* Program constants.

CREATION == 0
BIDDING == 1
ENDED == 2
CANCELLED == 3

HourMillis == 60 * 60 * 1000

Owner == "owner"
Address == {Owner, "A", "B", "C"}
\* Senders of claim in the general specification.
Participants == {Owner, "A", "B"}
\* Senders of the invocations whose checks only compare the sender with the owner.
Callers == {Owner, "A"}

\* Inputs of initialize.
SaleAmounts == {1000}
ReservePrices == {50}
MinIncrements == {0, 5}
DurationHours == {0, 1}

\* Inputs of bid in the general specification: (sender, bid_amount).
BidInputs == {"A", "B"} \X {40, 60, U128Max}
\* Inputs of bid in the scenario of the specification.
ScenarioBids == {<<"A", 60>>, <<"B", 63>>, <<"C", 70>>}

---------------------------------------------------------------------------
\* Values.

Bid(bidder, amount) == [bidder |-> bidder, amount |-> amount]

TokenClaim(bidding, sale) == [tokens_for_bidding |-> bidding, tokens_for_sale |-> sale]

\* u128 addition as the build computes it when it does not trap.
WrappingAdd(x, y) == (x + y) % U128Mod

\* The addition exceeds u128: a build with overflow checks panics here.
Overflows(x, y) == x + y > U128Max

\* One call of a token contract in an event group.
Call(token, shortname, party, amount) ==
    [token |-> token, shortname |-> shortname, party |-> party, amount |-> amount]

NoBid == Bid("none", 0)

\* An event group: its calls and its callback ("none", "start_callback", "bid_callback").
EventGroup(calls, callback, arg) == [calls |-> calls, callback |-> callback, arg |-> arg]

\* An invocation as the host sees it: the operation, the sender (for a
\* callback, the party of the transfer), the verdict delivered to a callback
\* (TRUE for an action), and whether it returned (FALSE: it panicked).
Invocation(op, caller, verdict, ok) ==
    [op |-> op, caller |-> caller, verdict |-> verdict, ok |-> ok]

\* The inputs of a committed invocation: the operation, the sender (for
\* bid_callback the bidder of the bid it carries), the bid amount (0 when
\* the operation takes none), the block time.
Logged(op, who, amount, at) == [op |-> op, who |-> who, amount |-> amount, at |-> at]

\* The scenario of the specification, as the committed invocations it names.
ScenarioTrace ==
    << Logged("start", Owner, 0, 0),
       Logged("start_callback", Owner, 0, 0),
       Logged("bid_callback", "A", 60, 0),
       Logged("bid_callback", "B", 63, 0),
       Logged("bid_callback", "C", 70, 0),
       Logged("execute", Owner, 0, HourMillis),
       Logged("claim", "A", 0, HourMillis),
       Logged("claim", Owner, 0, HourMillis),
       Logged("claim", "C", 0, HourMillis) >>

Off == 0 - 1

\* The sum of tokens_for_bidding over the ledger.
RECURSIVE SumBidding(_)
SumBidding(map) ==
    IF DOMAIN map = {} THEN 0
    ELSE LET a == CHOOSE x \in DOMAIN map : TRUE
         IN  map[a].tokens_for_bidding + SumBidding([x \in DOMAIN map \ {a} |-> map[x]])

\* The ledger entry of a participant, the zero claim when there is none.
EntryOf(map, a) == IF a \in DOMAIN map THEN map[a] ELSE TokenClaim(0, 0)

\* add_to_claim_map: entry(bidder).or_insert(0, 0), then += on both fields.
add_to_claim_map(map, bidder, additional_claim) ==
    LET entry == EntryOf(map, bidder)
        merged == TokenClaim(
            WrappingAdd(entry.tokens_for_bidding, additional_claim.tokens_for_bidding),
            WrappingAdd(entry.tokens_for_sale, additional_claim.tokens_for_sale))
    IN [a \in DOMAIN map \cup {bidder} |-> IF a = bidder THEN merged ELSE map[a]]

\* add_to_claim_map traps in a build with overflow checks.
add_to_claim_map_overflows(map, bidder, additional_claim) ==
    LET entry == EntryOf(map, bidder)
    IN \/ Overflows(entry.tokens_for_bidding, additional_claim.tokens_for_bidding)
       \/ Overflows(entry.tokens_for_sale, additional_claim.tokens_for_sale)

---------------------------------------------------------------------------
\* initialize: the state after construction, for every accepted input.

InitWith(sales, reserves, increments, durations) ==
    /\ contract_owner = Owner
    /\ start_time_millis = 0
    /\ \E h \in durations : end_time_millis = 0 + h * HourMillis
    /\ token_amount_for_sale \in sales
    /\ highest_bidder = Bid(Owner, 0)
    /\ reserve_price \in reserves
    /\ min_increment \in increments
    /\ claim_map = << >>
    /\ status = CREATION
    /\ now = 0
    /\ pending_start = 0
    /\ pending_bids = EmptyBag
    /\ overflow_checks \in BOOLEAN
    /\ last = Invocation("initialize", Owner, TRUE, TRUE)
    /\ events = << >>
    /\ bids_made = 0
    /\ confirmed_sum = 0
    /\ credited_sum = 0
    /\ scenario_step = 0
    /\ status_trace = << CREATION >>
    /\ claimed_sum = 0
    /\ start_requested = FALSE

Init == InitWith(SaleAmounts, ReservePrices, MinIncrements, DurationHours)

InitScenario == InitWith({1000}, {50}, {5}, {1})

---------------------------------------------------------------------------
\* An invocation that panics: nothing of the state is committed, no event
\* group is returned.
Panics(op, caller, verdict) ==
    /\ last' = Invocation(op, caller, verdict, FALSE)
    /\ events' = << >>
    /\ UNCHANGED <<state, confirmed_sum, credited_sum, scenario_step, status_trace,
                   claimed_sum, start_requested>>

\* status takes the value new.
Traced(new) ==
    status_trace' = IF new = status THEN status_trace ELSE Append(status_trace, new)

\* The observer of the scenario sees a committed invocation.
Observe(entry) ==
    scenario_step' =
        IF /\ scenario_step # Off
           /\ scenario_step < Len(ScenarioTrace)
           /\ ScenarioTrace[scenario_step + 1] = entry
        THEN scenario_step + 1
        ELSE Off

\* start (lib.rs 113-138)
Start(sender) ==
    /\ UNCHANGED <<now, pending_bids, overflow_checks, bids_made>>
    /\ IF sender # contract_owner \/ status # CREATION
       THEN /\ Panics("start", sender, TRUE)
            /\ UNCHANGED pending_start
       ELSE /\ pending_start < MaxStarts
            /\ pending_start' = pending_start + 1
            /\ events' = << EventGroup(
                   << Call("sale", "transfer_from", sender, token_amount_for_sale) >>,
                   "start_callback", NoBid) >>
            /\ last' = Invocation("start", sender, TRUE, TRUE)
            /\ Observe(Logged("start", sender, 0, now))
            /\ start_requested' = TRUE
            /\ UNCHANGED <<state, confirmed_sum, credited_sum, status_trace, claimed_sum>>

\* The verdict start_callback panics on (lib.rs 148).
StartDeniedIgnored(success) == FALSE
StartDenied(success) == ~success

\* start_callback (lib.rs 141-153)
StartCallback(success) ==
    /\ pending_start > 0
    /\ pending_start' = pending_start - 1
    /\ UNCHANGED <<now, pending_bids, overflow_checks, bids_made>>
    /\ IF StartDenied(success)
       THEN Panics("start_callback", Owner, success)
       ELSE /\ status' = BIDDING
            /\ events' = << >>
            /\ last' = Invocation("start_callback", Owner, success, TRUE)
            /\ Observe(Logged("start_callback", Owner, 0, now))
            /\ Traced(BIDDING)
            /\ UNCHANGED <<confirmed_sum, credited_sum, claimed_sum, start_requested>>
            /\ UNCHANGED <<contract_owner, start_time_millis, end_time_millis,
                           token_amount_for_sale, highest_bidder, reserve_price,
                           min_increment, claim_map>>


\* The event group of bid without its callback.
BidRequestUnbound(sender, bid_amount) ==
    EventGroup(<< Call("bidding", "transfer_from", sender, bid_amount) >>, "none", NoBid)

\* The event group bid returns (lib.rs 170-181): the pull of bid_amount from
\* the sender and the callback with the candidate bid.
BidRequest(sender, bid_amount) ==
    EventGroup(<< Call("bidding", "transfer_from", sender, bid_amount) >>,
               "bid_callback", Bid(sender, bid_amount))

\* bid (lib.rs 156-182): no check, no mutation; one pull with a callback
\* that carries the candidate bid.
BidAction(sender, bid_amount) ==
    /\ bids_made' = bids_made + 1
    /\ pending_bids' = pending_bids (+) SetToBag({Bid(sender, bid_amount)})
    /\ events' = << BidRequest(sender, bid_amount) >>
    /\ last' = Invocation("bid", sender, TRUE, TRUE)
    /\ UNCHANGED <<state, now, pending_start, overflow_checks,
                   confirmed_sum, credited_sum, scenario_step, status_trace,
                   claimed_sum, start_requested>>

\* The test with the increment left out.
NotWinningWithoutIncrement(bid) ==
    \/ status # BIDDING
    \/ now >= end_time_millis
    \/ bid.amount < highest_bidder.amount
    \/ bid.amount < reserve_price

\* The test of bid_callback (lib.rs 194-197) that sends a confirmed bid to
\* the refund branch, with the sum computed in u128.
NotWinning(bid) ==
    \/ status # BIDDING
    \/ now >= end_time_millis
    \/ bid.amount < WrappingAdd(highest_bidder.amount, min_increment)
    \/ bid.amount < reserve_price

\* The sum of the test is evaluated (|| short-circuits) and exceeds u128.
TestOverflows ==
    /\ status = BIDDING
    /\ now < end_time_millis
    /\ Overflows(highest_bidder.amount, min_increment)

\* The verdict bid_callback panics on (lib.rs 192).
BidDeniedIgnored(success) == FALSE
BidDenied(success) == ~success

\* bid_callback (lib.rs 184-220)
BidCallback(bid, success) ==
    /\ BagIn(bid, pending_bids)
    /\ pending_bids' = pending_bids (-) SetToBag({bid})
    /\ UNCHANGED <<now, pending_start, overflow_checks, bids_made>>
    /\ LET refund == TokenClaim(bid.amount, 0)
           prev_highest_bidder == highest_bidder
           supersede == TokenClaim(prev_highest_bidder.amount, 0)
       IN  IF BidDenied(success)
           THEN Panics("bid_callback", bid.bidder, success)
           ELSE IF overflow_checks /\ TestOverflows
           THEN Panics("bid_callback", bid.bidder, TRUE)
           ELSE IF NotWinning(bid)
           THEN IF overflow_checks /\ add_to_claim_map_overflows(claim_map, bid.bidder, refund)
                THEN Panics("bid_callback", bid.bidder, TRUE)
                ELSE /\ claim_map' = add_to_claim_map(claim_map, bid.bidder, refund)
                     /\ events' = << >>
                     /\ last' = Invocation("bid_callback", bid.bidder, success, TRUE)
                     /\ Observe(Logged("bid_callback", bid.bidder, bid.amount, now))
                     /\ confirmed_sum' = confirmed_sum + bid.amount
                     /\ credited_sum' = credited_sum + SumBidding(claim_map') - SumBidding(claim_map)
                     /\ UNCHANGED <<contract_owner, start_time_millis, end_time_millis,
                                    token_amount_for_sale, highest_bidder, reserve_price,
                                    min_increment, status, status_trace,
                                    claimed_sum, start_requested>>
           ELSE IF overflow_checks
                   /\ add_to_claim_map_overflows(claim_map, prev_highest_bidder.bidder, supersede)
                THEN Panics("bid_callback", bid.bidder, TRUE)
                ELSE /\ highest_bidder' = bid
                     /\ claim_map' = add_to_claim_map(claim_map, prev_highest_bidder.bidder, supersede)
                     /\ events' = << >>
                     /\ last' = Invocation("bid_callback", bid.bidder, success, TRUE)
                     /\ Observe(Logged("bid_callback", bid.bidder, bid.amount, now))
                     /\ confirmed_sum' = confirmed_sum + bid.amount
                     /\ credited_sum' = credited_sum + SumBidding(claim_map') - SumBidding(claim_map)
                     /\ UNCHANGED <<contract_owner, start_time_millis, end_time_millis,
                                    token_amount_for_sale, reserve_price, min_increment,
                                    status, status_trace, claimed_sum, start_requested>>

\* The calls claim puts in its event group for a ledger entry (lib.rs 232-245).
Payouts(sender, claimable) ==
    (IF claimable.tokens_for_bidding > 0
     THEN << Call("bidding", "transfer", sender, claimable.tokens_for_bidding) >>
     ELSE << >>)
    \o
    (IF claimable.tokens_for_sale > 0
     THEN << Call("sale", "transfer", sender, claimable.tokens_for_sale) >>
     ELSE << >>)

\* The ledger after claim's insert of the zero claim (lib.rs 246-252).
SettledNot(map, sender) == map
Settled(map, sender) == [map EXCEPT ![sender] = TokenClaim(0, 0)]

\* claim (lib.rs 221-256)
Claim(sender) ==
    /\ UNCHANGED <<now, pending_start, pending_bids, overflow_checks, bids_made>>
    /\ last' = Invocation("claim", sender, TRUE, TRUE)
    /\ Observe(Logged("claim", sender, 0, now))
    /\ UNCHANGED <<confirmed_sum, credited_sum, status_trace, start_requested>>
    /\ IF sender \notin DOMAIN claim_map
       THEN /\ events' = << >>
            /\ UNCHANGED <<state, claimed_sum>>
       ELSE LET claimable == claim_map[sender]
            IN  /\ events' = << EventGroup(Payouts(sender, claimable), "none", NoBid) >>
                /\ claimed_sum' = claimed_sum + claimable.tokens_for_bidding
                /\ claim_map' = Settled(claim_map, sender)
                /\ UNCHANGED <<contract_owner, start_time_millis, end_time_millis,
                               token_amount_for_sale, highest_bidder, reserve_price,
                               min_increment, status>>

\* The first check of execute (lib.rs 263).
ExecuteTooEarlyUnchecked == FALSE
ExecuteTooEarly == now < end_time_millis

\* execute (lib.rs 257-285)
Execute(sender) ==
    /\ UNCHANGED <<now, pending_start, pending_bids, overflow_checks, bids_made>>
    /\ LET to_owner == TokenClaim(highest_bidder.amount, 0)
           to_winner == TokenClaim(0, token_amount_for_sale)
           credited == add_to_claim_map(claim_map, contract_owner, to_owner)
       IN  IF ExecuteTooEarly
           THEN Panics("execute", sender, TRUE)
           ELSE IF status # BIDDING
           THEN Panics("execute", sender, TRUE)
           ELSE IF overflow_checks
                   /\ \/ add_to_claim_map_overflows(claim_map, contract_owner, to_owner)
                      \/ add_to_claim_map_overflows(credited, highest_bidder.bidder, to_winner)
           THEN Panics("execute", sender, TRUE)
           ELSE /\ status' = ENDED
                /\ claim_map' = add_to_claim_map(credited, highest_bidder.bidder, to_winner)
                /\ events' = << >>
                /\ last' = Invocation("execute", sender, TRUE, TRUE)
                /\ Observe(Logged("execute", sender, 0, now))
                /\ Traced(ENDED)
                /\ UNCHANGED <<confirmed_sum, credited_sum, claimed_sum, start_requested>>
                /\ UNCHANGED <<contract_owner, start_time_millis, end_time_millis,
                               token_amount_for_sale, highest_bidder, reserve_price,
                               min_increment>>

\* cancel (lib.rs 286-316)
Cancel(sender) ==
    /\ UNCHANGED <<now, pending_start, pending_bids, overflow_checks, bids_made>>
    /\ LET to_bidder == TokenClaim(highest_bidder.amount, 0)
           to_owner == TokenClaim(0, token_amount_for_sale)
           refunded == add_to_claim_map(claim_map, highest_bidder.bidder, to_bidder)
       IN  IF sender # contract_owner
           THEN Panics("cancel", sender, TRUE)
           ELSE IF now >= end_time_millis
           THEN Panics("cancel", sender, TRUE)
           ELSE IF status # BIDDING
           THEN Panics("cancel", sender, TRUE)
           ELSE IF overflow_checks
                   /\ \/ add_to_claim_map_overflows(claim_map, highest_bidder.bidder, to_bidder)
                      \/ add_to_claim_map_overflows(refunded, contract_owner, to_owner)
           THEN Panics("cancel", sender, TRUE)
           ELSE /\ status' = CANCELLED
                /\ claim_map' = add_to_claim_map(refunded, contract_owner, to_owner)
                /\ events' = << >>
                /\ last' = Invocation("cancel", sender, TRUE, TRUE)
                /\ Observe(Logged("cancel", sender, 0, now))
                /\ Traced(CANCELLED)
                /\ UNCHANGED <<confirmed_sum, credited_sum, claimed_sum, start_requested>>
                /\ UNCHANGED <<contract_owner, start_time_millis, end_time_millis,
                               token_amount_for_sale, highest_bidder, reserve_price,
                               min_increment>>

\* The host's clock (block_production_time) advances between invocations.
Tick ==
    /\ now < MaxHours * HourMillis
    /\ now' = now + HourMillis
    /\ last' = Invocation("tick", "host", TRUE, TRUE)
    /\ events' = << >>
    /\ UNCHANGED <<state, pending_start, pending_bids, overflow_checks, bids_made,
                   confirmed_sum, credited_sum, scenario_step, status_trace,
                   claimed_sum, start_requested>>

---------------------------------------------------------------------------
Next ==
    \/ \E sender \in Callers : Start(sender)
    \/ \E success \in BOOLEAN : StartCallback(success)
    \/ \E input \in BidInputs : bids_made < MaxBids /\ BidAction(input[1], input[2])
    \/ \E bid \in BagToSet(pending_bids), success \in BOOLEAN : BidCallback(bid, success)
    \/ \E sender \in Participants : Claim(sender)
    \/ \E sender \in Callers : Execute(sender)
    \/ \E sender \in Callers : Cancel(sender)
    \/ Tick

Spec == Init /\ [][Next]_vars

\* The scenario of the specification: its construction parameters and its
\* three bids, every other invocation as in Next.
NextScenario ==
    \/ Start(Owner)
    \/ \E success \in BOOLEAN : StartCallback(success)
    \/ \E input \in ScenarioBids :
          bids_made < Cardinality(ScenarioBids) /\ BidAction(input[1], input[2])
    \/ \E bid \in BagToSet(pending_bids), success \in BOOLEAN : BidCallback(bid, success)
    \/ \E sender \in Address : Claim(sender)
    \/ Execute(Owner)
    \/ Cancel(Owner)
    \/ Tick

SpecScenario == InitScenario /\ [][NextScenario]_vars

\* The host keeps producing blocks and execute keeps being invoked.
SpecFair ==
    /\ Init
    /\ [][Next]_vars
    /\ WF_vars(Tick)
    /\ WF_vars(\E sender \in Callers : Execute(sender))

---------------------------------------------------------------------------
\* Helpers of the properties.

Range(seq) == {seq[i] : i \in 1..Len(seq)}

\* The calls of the event group an invocation returned, none when it
\* returned no group.
CallsOf(evs) == IF evs = << >> THEN << >> ELSE evs[1].calls

WasCancelled == CANCELLED \in Range(status_trace)

Parameters == <<contract_owner, start_time_millis, end_time_millis,
                token_amount_for_sale, reserve_price, min_increment>>

---------------------------------------------------------------------------
\* C1: status only moves Creation -> Bidding -> Ended or Cancelled; no step
\* re-enters Creation or Bidding, and Ended and Cancelled are never left.
C1_StatusOneDirectional ==
    [][ /\ (status = CREATION => status' \in {CREATION, BIDDING})
        /\ (status = BIDDING => status' \in {BIDDING, ENDED, CANCELLED})
        /\ (status \in {ENDED, CANCELLED} => status' = status) ]_vars

\* C2: highest_bidder.amount never decreases, and a bid that replaces the
\* highest bidder has an amount of at least the previous amount plus
\* min_increment and of at least reserve_price.
C2_HighestBidMonotone ==
    [][ /\ highest_bidder'.amount >= highest_bidder.amount
        /\ (highest_bidder' # highest_bidder =>
              /\ highest_bidder'.amount >= highest_bidder.amount + min_increment
              /\ highest_bidder'.amount >= reserve_price) ]_vars

\* C3: what bid_callback has credited to the ledger as tokens_for_bidding,
\* plus the amount of the current highest bid, is the sum of the amounts of
\* the confirmed bids.
C3_BidFundsConserved ==
    credited_sum + highest_bidder.amount = confirmed_sum

\* C4: claim requests exactly the caller's two ledger values (each only if
\* positive), zeroes exactly that entry and leaves the other entries alone;
\* a claim without an entry changes and requests nothing; a second claim by
\* the same caller directly after the first requests nothing.
C4_ClaimPaysEntryOnce ==
    [][ last'.op = "claim" =>
          LET c == last'.caller
              entry == EntryOf(claim_map, c)
              expected ==
                  {Call("bidding", "transfer", c, entry.tokens_for_bidding) :
                      x \in {y \in {1} : entry.tokens_for_bidding > 0}}
                  \cup
                  {Call("sale", "transfer", c, entry.tokens_for_sale) :
                      x \in {y \in {1} : entry.tokens_for_sale > 0}}
          IN  /\ last'.ok
              /\ UNCHANGED <<Parameters, highest_bidder, status>>
              /\ IF c \notin DOMAIN claim_map
                 THEN /\ claim_map' = claim_map
                      /\ events' = << >>
                 ELSE /\ Len(events') = 1
                      /\ events'[1].callback = "none"
                      /\ Range(events'[1].calls) = expected
                      /\ Len(events'[1].calls) = Cardinality(expected)
                      /\ DOMAIN claim_map' = DOMAIN claim_map
                      /\ claim_map'[c] = TokenClaim(0, 0)
                      /\ \A a \in DOMAIN claim_map \ {c} : claim_map'[a] = claim_map[a]
              /\ (last.op = "claim" /\ last.caller = c => CallsOf(events') = << >>) ]_vars

\* A claim has paid out both tokens at once.
C4_Witness ==
    /\ last.op = "claim"
    /\ Len(CallsOf(events)) = 2
    /\ claim_map[last.caller] = TokenClaim(0, 0)

\* C5: execute returns only when status is Bidding and now >= end_time;
\* otherwise it is rejected and the state is unchanged; an execute directly
\* after a successful one is rejected, seeing status Ended.
C5_ExecuteOnlyAfterEnd ==
    [][ last'.op = "execute" =>
          /\ (last'.ok => status = BIDDING /\ now >= end_time_millis)
          /\ (~(status = BIDDING /\ now >= end_time_millis) =>
                ~last'.ok /\ events' = << >> /\ UNCHANGED state)
          /\ (last.op = "execute" /\ last.ok =>
                status = ENDED /\ ~last'.ok /\ UNCHANGED state) ]_vars

\* An execute was rejected on an auction that an earlier execute had ended.
C5_Witness ==
    /\ last.op = "execute"
    /\ ~last.ok
    /\ status = ENDED
    /\ now >= end_time_millis

\* C6: cancel returns only when status is Bidding, now < end_time and the
\* sender is the owner; and once status has been Cancelled, no later execute
\* or cancel returns and no bid replaces the highest bidder.
C6_CancelledIsFinal ==
    [][ /\ (last'.op = "cancel" /\ last'.ok =>
              /\ status = BIDDING
              /\ now < end_time_millis
              /\ last'.caller = contract_owner)
        /\ (WasCancelled =>
              /\ ~(last'.op \in {"execute", "cancel"} /\ last'.ok)
              /\ highest_bidder' = highest_bidder) ]_vars

\* C7: status becomes Bidding only in a start_callback delivered with a
\* success verdict for a pull that start requested; start requests the pull
\* of token_amount_for_sale of the sale token and does not change status; a
\* start_callback with a failure verdict does not change status.
C7_BiddingOnlyWhenFunded ==
    [][ /\ (status' = BIDDING /\ status # BIDDING =>
              /\ last'.op = "start_callback"
              /\ last'.verdict
              /\ pending_start > 0
              /\ pending_start' = pending_start - 1)
        /\ (pending_start' > pending_start =>
              /\ last'.op = "start"
              /\ last'.ok
              /\ last'.caller = contract_owner
              /\ pending_start' = pending_start + 1
              /\ events' = << EventGroup(
                     << Call("sale", "transfer_from", contract_owner,
                             token_amount_for_sale) >>,
                     "start_callback", NoBid) >>)
        /\ (last'.op = "start" => status' = status)
        /\ (last'.op = "start_callback" /\ ~last'.verdict => status' = status) ]_vars

\* A start_callback with a success verdict has opened the bidding.
C7_Witness ==
    /\ status = BIDDING
    /\ last.op = "start_callback"
    /\ last.verdict
    /\ status_trace = << CREATION, BIDDING >>

\* C8: the scenario of the specification, step by step (checked under
\* SpecScenario, whose construction parameters are sale_amount = 1000,
\* reserve = 50, min_increment = 5): A's 60 wins, B's 63 loses and is
\* refunded, C's 70 wins and A is refunded; execute at end_time credits the
\* owner 70 bidding tokens and C 1000 sale tokens; the claims of A, the owner
\* and C request 60 bidding, 70 bidding and 1000 sale tokens.
C8_Scenario ==
    /\ scenario_step = 3 =>
          /\ highest_bidder = Bid("A", 60)
          /\ EntryOf(claim_map, "A") = TokenClaim(0, 0)
    /\ scenario_step = 4 =>
          /\ highest_bidder = Bid("A", 60)
          /\ EntryOf(claim_map, "B") = TokenClaim(63, 0)
    /\ scenario_step = 5 =>
          /\ status = BIDDING
          /\ highest_bidder = Bid("C", 70)
          /\ EntryOf(claim_map, "A") = TokenClaim(60, 0)
          /\ EntryOf(claim_map, "B") = TokenClaim(63, 0)
    /\ scenario_step = 6 =>
          /\ status = ENDED
          /\ EntryOf(claim_map, Owner) = TokenClaim(70, 0)
          /\ EntryOf(claim_map, "C") = TokenClaim(0, 1000)
    /\ scenario_step = 7 /\ last = Invocation("claim", "A", TRUE, TRUE) =>
          CallsOf(events) = << Call("bidding", "transfer", "A", 60) >>
    /\ scenario_step = 8 /\ last = Invocation("claim", Owner, TRUE, TRUE) =>
          CallsOf(events) = << Call("bidding", "transfer", Owner, 70) >>
    /\ scenario_step = 9 /\ last = Invocation("claim", "C", TRUE, TRUE) =>
          CallsOf(events) = << Call("sale", "transfer", "C", 1000) >>

\* The scenario has run to its last claim.
C8_Witness ==
    /\ scenario_step = Len(ScenarioTrace)
    /\ last = Invocation("claim", "C", TRUE, TRUE)
    /\ token_amount_for_sale = 1000
    /\ reserve_price = 50
    /\ min_increment = 5

\* The ledger with amount added to a's tokens_for_bidding and sale added to
\* b's tokens_for_sale, in the integers.
Credited(map, a, amount, b, sale) ==
    [x \in DOMAIN map \cup {a, b} |->
        TokenClaim(EntryOf(map, x).tokens_for_bidding + (IF x = a THEN amount ELSE 0),
                   EntryOf(map, x).tokens_for_sale + (IF x = b THEN sale ELSE 0))]

\* C9: an execute that returns sets status to Ended, adds
\* highest_bidder.amount to the owner's tokens_for_bidding and
\* token_amount_for_sale to the highest bidder's tokens_for_sale, and changes
\* nothing else; before any bid the highest bidder is the owner with amount 0.
C9_ExecuteCredits ==
    [][ /\ (last'.op = "execute" /\ last'.ok =>
              /\ status' = ENDED
              /\ claim_map' = Credited(claim_map, contract_owner, highest_bidder.amount,
                                       highest_bidder.bidder, token_amount_for_sale)
              /\ events' = << >>
              /\ UNCHANGED <<Parameters, highest_bidder>>)
        /\ (bids_made = 0 => highest_bidder = Bid(contract_owner, 0)) ]_vars

\* C10: a cancel that returns sets status to Cancelled, adds
\* highest_bidder.amount to the highest bidder's tokens_for_bidding and
\* token_amount_for_sale to the owner's tokens_for_sale, and changes nothing
\* else.
C10_CancelCredits ==
    [][ last'.op = "cancel" /\ last'.ok =>
          /\ status' = CANCELLED
          /\ claim_map' = Credited(claim_map, highest_bidder.bidder, highest_bidder.amount,
                                   contract_owner, token_amount_for_sale)
          /\ events' = << >>
          /\ UNCHANGED <<Parameters, highest_bidder>> ]_vars

---------------------------------------------------------------------------
\* The bid that the bid_callback of this step carries: it leaves the
\* callbacks in flight.
Delivers(bid) ==
    /\ BagIn(bid, pending_bids)
    /\ pending_bids' = pending_bids (-) SetToBag({bid})

\* The condition of the specification under which a confirmed bid does not
\* win, with the sum taken in the integers.
Losing(bid) ==
    \/ status # BIDDING
    \/ now >= end_time_millis
    \/ bid.amount < highest_bidder.amount + min_increment
    \/ bid.amount < reserve_price

\* C11: a bid_callback with verdict success whose candidate is not winning
\* (status is not Bidding, or now >= end_time, or amount < highest amount +
\* min_increment, or amount < reserve_price) returns, adds the candidate's
\* whole amount to the candidate's tokens_for_bidding and leaves
\* highest_bidder, status and the rest of the ledger as they were; so does a
\* callback delivered after end_time, after execute or after cancel.
C11_LosingBidRefunded ==
    [][ last'.op = "bid_callback" /\ last'.verdict =>
          \A bid \in BagToSet(pending_bids) :
              Delivers(bid) /\ Losing(bid) =>
                  /\ last'.ok
                  /\ claim_map' = Credited(claim_map, bid.bidder, bid.amount, bid.bidder, 0)
                  /\ events' = << >>
                  /\ UNCHANGED <<Parameters, highest_bidder, status>> ]_vars

\* C12: the highest bidder is replaced only by a bid of a strictly greater
\* amount: a confirmed bid whose amount equals highest_bidder.amount does not
\* replace highest_bidder and is credited to the candidate, for every
\* min_increment and reserve_price.
C12_EqualBidLoses ==
    [][ /\ (highest_bidder' # highest_bidder =>
              highest_bidder'.amount > highest_bidder.amount)
        /\ (last'.op = "bid_callback" /\ last'.verdict /\ last'.ok =>
              \A bid \in BagToSet(pending_bids) :
                  Delivers(bid) /\ bid.amount = highest_bidder.amount =>
                      /\ highest_bidder' = highest_bidder
                      /\ EntryOf(claim_map', bid.bidder).tokens_for_bidding
                           = EntryOf(claim_map, bid.bidder).tokens_for_bidding + bid.amount) ]_vars

\* C13: a start_callback or bid_callback delivered with a failure verdict
\* panics: the state after it is the state before it (no ledger credit, no
\* change of highest_bidder, no change of status) and no event group is
\* returned.
C13_DeniedCallbackAborts ==
    [][ last'.op \in {"start_callback", "bid_callback"} /\ ~last'.verdict =>
          /\ ~last'.ok
          /\ UNCHANGED state
          /\ events' = << >> ]_vars

\* A bid transfer was denied while the auction was open for bids, after a
\* confirmed bid had been recorded.
C13_Witness ==
    /\ last.op = "bid_callback"
    /\ ~last.verdict
    /\ ~last.ok
    /\ status = BIDDING
    /\ now < end_time_millis
    /\ highest_bidder.bidder # contract_owner
    /\ confirmed_sum = highest_bidder.amount

\* C14: start and bid never change the auction state.  A start that returns
\* emits one pull of token_amount_for_sale of the sale token from the sender,
\* bound to start_callback; bid always returns, in every status and at every
\* time, and emits one pull of bid_amount of the bidding token from the
\* sender, bound to bid_callback with the candidate Bid{sender, bid_amount}.
C14_StartAndBidOnlyRequest ==
    [][ /\ (last'.op = "start" =>
              /\ UNCHANGED state
              /\ IF last'.ok
                 THEN /\ events' = << EventGroup(
                             << Call("sale", "transfer_from", last'.caller,
                                     token_amount_for_sale) >>,
                             "start_callback", NoBid) >>
                      /\ pending_start' = pending_start + 1
                      /\ pending_bids' = pending_bids
                 ELSE /\ events' = << >>
                      /\ pending_start' = pending_start
                      /\ pending_bids' = pending_bids)
        /\ (last'.op = "bid" =>
              /\ last'.ok
              /\ UNCHANGED state
              /\ pending_start' = pending_start
              /\ \E bid \in BagToSet(pending_bids') :
                    /\ pending_bids' = pending_bids (+) SetToBag({bid})
                    /\ bid.bidder = last'.caller
                    /\ events' = << EventGroup(
                           << Call("bidding", "transfer_from", bid.bidder, bid.amount) >>,
                           "bid_callback", bid) >>) ]_vars

\* A bid was requested on an auction that had already ended or been
\* cancelled.
C14_Witness ==
    /\ last.op = "bid"
    /\ status \in {ENDED, CANCELLED}
    /\ start_requested
    /\ Len(events) = 1
    /\ events[1].callback = "bid_callback"
    /\ BagIn(events[1].arg, pending_bids)

\* C15: end_time > start_time in the state initialize produces, for every
\* accepted auction_duration_hours, and in every state after it.
C15_EndAfterStart ==
    end_time_millis > start_time_millis

\* C16: a ledger key is never removed; claim sets the caller's entry to the
\* zero claim in place; under every other step each of the two fields of
\* every entry does not decrease.
C16_LedgerMonotone ==
    [][ /\ DOMAIN claim_map \subseteq DOMAIN claim_map'
        /\ \A a \in DOMAIN claim_map :
              IF last'.op = "claim" /\ last'.caller = a
              THEN claim_map'[a] = TokenClaim(0, 0)
              ELSE /\ claim_map'[a].tokens_for_bidding >= claim_map[a].tokens_for_bidding
                   /\ claim_map'[a].tokens_for_sale >= claim_map[a].tokens_for_sale ]_vars

\* The merge of claim into a's ledger entry exceeds u128 in one of the fields.
MergeExceeds(map, a, claim) ==
    \/ EntryOf(map, a).tokens_for_bidding + claim.tokens_for_bidding > U128Max
    \/ EntryOf(map, a).tokens_for_sale + claim.tokens_for_sale > U128Max

\* C17: u128 amounts never wrap silently.  An invocation in which the sum
\* highest_bidder.amount + min_increment of the winning-bid test, or a merge
\* of a credit into a ledger entry, exceeds 2^128 - 1 is rejected with the
\* state unchanged: no invocation in which one of them exceeds returns.
C17_NoSilentWrap ==
    [][ /\ (last'.op = "bid_callback" /\ last'.verdict /\ last'.ok =>
              \A bid \in BagToSet(pending_bids) :
                  Delivers(bid) =>
                      /\ (status = BIDDING /\ now < end_time_millis =>
                            highest_bidder.amount + min_increment <= U128Max)
                      /\ IF highest_bidder' = highest_bidder
                         THEN ~MergeExceeds(claim_map, bid.bidder, TokenClaim(bid.amount, 0))
                         ELSE ~MergeExceeds(claim_map, highest_bidder.bidder,
                                            TokenClaim(highest_bidder.amount, 0)))
        /\ (last'.op = "execute" /\ last'.ok =>
              /\ ~MergeExceeds(claim_map, contract_owner,
                               TokenClaim(highest_bidder.amount, 0))
              /\ ~MergeExceeds(Credited(claim_map, contract_owner, highest_bidder.amount,
                                        contract_owner, 0),
                               highest_bidder.bidder, TokenClaim(0, token_amount_for_sale)))
        /\ (last'.op = "cancel" /\ last'.ok =>
              /\ ~MergeExceeds(claim_map, highest_bidder.bidder,
                               TokenClaim(highest_bidder.amount, 0))
              /\ ~MergeExceeds(Credited(claim_map, highest_bidder.bidder,
                                        highest_bidder.amount, highest_bidder.bidder, 0),
                               contract_owner, TokenClaim(0, token_amount_for_sale))) ]_vars

\* C18: the ledger's total of tokens_for_bidding, plus the amount of the
\* highest bid while status is Bidding, never exceeds the bidding tokens the
\* contract holds: the confirmed bid pulls minus the bidding-token payouts
\* claim has requested.
C18_BiddingSolvent ==
    SumBidding(claim_map) + (IF status = BIDDING THEN highest_bidder.amount ELSE 0)
        <= confirmed_sum - claimed_sum

\* C19: the pull of the sale tokens is requested at most once: once a start
\* has returned with its transfer request, no later start returns, also
\* while the first start_callback is still in flight.
C19_SingleFunding ==
    [][ last'.op = "start" /\ last'.ok => ~start_requested ]_vars

\* C20: whenever status is Bidding and now >= end_time, an execute by any
\* caller returns and ends the auction, however many callbacks are in
\* flight, and a cancel is rejected; and, when the clock advances and execute
\* keeps being invoked, an auction in Bidding eventually is Ended or
\* Cancelled.
C20_ExecuteSettles ==
    /\ [][ status = BIDDING /\ now >= end_time_millis =>
             /\ (last'.op = "execute" => last'.ok /\ status' = ENDED)
             /\ (last'.op = "cancel" => ~last'.ok /\ UNCHANGED state) ]_vars
    /\ (status = BIDDING ~> status \in {ENDED, CANCELLED})
====
